---------------------------- MODULE Spec2Model ----------------------------
(***************************************************************************)
(* Model of the page-to-database ingestion pipeline of nom024_Airflow:     *)
(* link discovery (spreadsheet/pipeline.py, html.py, url.py), artifact     *)
(* download (downloader.py), archive extraction (zip.py) and the           *)
(* orchestrator process_web_page_to_database.                              *)
(*                                                                         *)
(* Strings (URLs, hrefs, paths, archive entry names) are sequences of      *)
(* one-character strings, so that lower(), endswith(), urljoin(),          *)
(* urlparse().path, pathlib's "/" and zipfile's name sanitisation are      *)
(* computed, not assumed.                                                  *)
(***************************************************************************)
EXTENDS Integers, Sequences, FiniteSets, TLC

VARIABLES
    \* ---- archive extraction (zip.py) ----
    z_pc,          \* "call" before the call, "done" after it
    z_names,       \* ZipFile.namelist() of the archive, in archive order
    z_op,          \* which extraction was called
    z_ret,         \* Optional[Path] returned by extract_spreadsheet_from_zip
    z_list,        \* List[Path] returned by extract_all_files_from_zip
    z_extracted,   \* paths written below the extraction directory, in order
    \* ---- link discovery (find_downloadable_files_in_page) ----
    d_pc,          \* "call" / "done"
    d_anchors,     \* href attribute of every <a> of the page, document order
    d_status,      \* outcome of requests.get(page_url): "ok", "http_error", "transport_error"
    d_raised,      \* the call ended by raising
    d_files,       \* the list the call returned
    \* ---- orchestrator (process_web_page_to_database) ----
    pc,            \* position in process_web_page_to_database
    page,          \* hrefs of the page's anchors
    downloadable_files,
    idx,           \* position of the for loop (1-based)
    zip_path,      \* archive downloaded by the current attempt, or None
    excel_file,    \* value of excel_file in the current iteration
    processed_file,
    result,        \* value returned to the caller
    disk,          \* files that exist on local storage
    createdLog,    \* every file creation, in order
    unlinkedLog,   \* every file deletion, in order
    log,           \* one record per candidate attempt (environment outcomes)
    store,         \* committed writes to the relational store, in order
    \* ---- table transformations (transform.py, nacionalidades.py, ejemplo_nuevo_pipeline.py) ----
    t_pc,          \* "call" / "done"
    t_table,       \* the DataFrame handed to the function
    t_op,          \* which function was called
    t_metadata,    \* metadata argument of add_metadata_columns
    t_mapping,     \* column_mapping argument of apply_column_mapping
    t_required,    \* required_columns argument of validate_required_columns
    t_out,         \* the DataFrame returned
    t_again,       \* the DataFrame returned when the function is applied to t_out
    t_raised,      \* the call ended by raising
    \* ---- relational sink (database_loader.py) ----
    s_store,       \* the table of the database, or NoTable
    s_before,      \* s_store before the last call of save_dataframe_to_sqlite
    s_frame,       \* dataframe argument of the last call
    s_policy,      \* if_exists argument of the last call
    s_raised,      \* the last call ended by raising
    s_calls,       \* number of calls so far
    \* ---- process_spreadsheet_and_save_to_database, statement by statement ----
    p_pc,          \* the statement about to run
    p_rows,        \* rows of the spreadsheet on disk
    p_frame,       \* rows of the current DataFrame
    p_trace,       \* the statements that completed, in order
    p_written,     \* writes to the store, in order
    p_result,      \* value returned: "none" before the return, "true", "false"
    \* ---- process_nationalities_data (nacionalidades.py) ----
    n_pc,          \* "call" / "done"
    n_env,         \* what the page, the download and the processing would do
    n_result,      \* "none" before the return, "true", "false", "error"
    \* ---- run_all_pipelines (main.py) ----
    m_pc,          \* "loop", "summary", "done"
    m_pipelines,   \* what each registered pipeline does when called
    m_i,           \* position of the for loop (1-based)
    m_results,     \* results, by position of the pipeline's name
    m_calls,       \* the pipelines called, in order
    m_ret          \* value returned: "none" before the return, "true", "false"

zvars == <<z_pc, z_names, z_op, z_ret, z_list, z_extracted>>
dvars == <<d_pc, d_anchors, d_status, d_raised, d_files>>
ovars == <<pc, page, downloadable_files, idx, zip_path, excel_file,
           processed_file, result, disk, createdLog, unlinkedLog, log, store>>
tvars == <<t_pc, t_table, t_op, t_metadata, t_mapping, t_required, t_out, t_again, t_raised>>
svars == <<s_store, s_before, s_frame, s_policy, s_raised, s_calls>>
pvars == <<p_pc, p_rows, p_frame, p_trace, p_written, p_result>>
nvars == <<n_pc, n_env, n_result>>
mvars == <<m_pc, m_pipelines, m_i, m_results, m_calls, m_ret>>
xvars == <<tvars, svars, pvars, nvars, mvars>>
vars == <<zvars, dvars, ovars, xvars>>

-----------------------------------------------------------------------------
(* Bounds of the model *)

MaxEntries == 3     \* entries of an archive handed to the extraction functions
MaxAnchors == 3     \* anchors of a page handed to link discovery
MaxLinks == 3       \* anchors of the page the orchestrator processes

-----------------------------------------------------------------------------
(* Strings *)

\* Python's None where a str or a Path is expected
None == <<"<None>">>

UpperAlpha == <<"A", "B", "C", "D", "E", "F", "G", "H", "I", "J", "K", "L", "M",
                "N", "O", "P", "Q", "R", "S", "T", "U", "V", "W", "X", "Y", "Z">>
LowerAlpha == <<"a", "b", "c", "d", "e", "f", "g", "h", "i", "j", "k", "l", "m",
                "n", "o", "p", "q", "r", "s", "t", "u", "v", "w", "x", "y", "z">>

LowerChar(c) ==
    IF \E k \in 1..Len(UpperAlpha) : UpperAlpha[k] = c
    THEN LowerAlpha[CHOOSE k \in 1..Len(UpperAlpha) : UpperAlpha[k] = c]
    ELSE c

\* str.lower()
lower(s) == [k \in 1..Len(s) |-> LowerChar(s[k])]

\* str.endswith(suffix)
EndsWith(s, suffix) ==
    /\ Len(s) >= Len(suffix)
    /\ SubSeq(s, Len(s) - Len(suffix) + 1, Len(s)) = suffix

\* str.endswith(tuple_of_suffixes)
EndsWithAny(s, suffixes) == \E e \in suffixes : EndsWith(s, e)

StartsWith(s, prefix) ==
    /\ Len(s) >= Len(prefix)
    /\ SubSeq(s, 1, Len(prefix)) = prefix

\* index of the first character of s that is in chars, Len(s)+1 when none
FirstOf(s, chars) ==
    IF \E k \in 1..Len(s) : s[k] \in chars
    THEN CHOOSE k \in 1..Len(s) : s[k] \in chars /\ \A j \in 1..(k-1) : s[j] \notin chars
    ELSE Len(s) + 1

\* index of the last character of s that is c, 0 when none
LastOf(s, c) ==
    IF \E k \in 1..Len(s) : s[k] = c
    THEN CHOOSE k \in 1..Len(s) : s[k] = c /\ \A j \in (k+1)..Len(s) : s[j] # c
    ELSE 0

Drop(s, n) == SubSeq(s, n + 1, Len(s))
Take(s, n) == SubSeq(s, 1, n)

\* s without its trailing "/" characters
RECURSIVE StripTrailingSlashes(_)
StripTrailingSlashes(s) ==
    IF Len(s) > 1 /\ s[Len(s)] = "/" THEN StripTrailingSlashes(Take(s, Len(s) - 1)) ELSE s

\* str.split("/")
RECURSIVE SplitSlash(_)
SplitSlash(s) ==
    LET k == FirstOf(s, {"/"})
    IN  IF k > Len(s) THEN <<s>> ELSE <<Take(s, k - 1)>> \o SplitSlash(Drop(s, k))

\* "/".join(parts)
RECURSIVE JoinSlash(_)
JoinSlash(parts) ==
    IF Len(parts) = 0 THEN <<>>
    ELSE IF Len(parts) = 1 THEN parts[1]
    ELSE parts[1] \o <<"/">> \o JoinSlash(Tail(parts))

-----------------------------------------------------------------------------
(* Paths *)

\* pathlib: directory / name.  An absolute name replaces the directory; ".."
\* components are kept; trailing slashes are dropped.
PathJoin(dir, name) ==
    IF name # <<>> /\ name[1] = "/"
    THEN StripTrailingSlashes(name)
    ELSE StripTrailingSlashes(dir \o <<"/">> \o name)

\* pathlib: Path(p).name, the last component of p
PathName(p) ==
    LET q == StripTrailingSlashes(p)
    IN  IF q = <<"/">> THEN <<>> ELSE Drop(q, LastOf(q, "/"))

\* zipfile.ZipFile.extract(member, path): the member is written below path, its
\* name stripped of empty, "." and ".." components (so of a leading "/" too).
ZipExtractTarget(dir, name) ==
    LET invalid_path_parts == {<<>>, <<".">>, <<".", ".">>}
        parts == SelectSeq(SplitSlash(name), LAMBDA x : x \notin invalid_path_parts)
    IN  dir \o <<"/">> \o JoinSlash(parts)

-----------------------------------------------------------------------------
(* zip.py *)

spreadsheet_extensions == {<<".", "x", "l", "s", "x">>, <<".", "x", "l", "s">>}

\* The loop of extract_spreadsheet_from_zip over zip_ref.namelist(), from entry k on.
RECURSIVE ScanNamelist(_, _, _, _, _)
ScanNamelist(names, k, extraction_directory, extract_first_only, extracted) ==
    IF k > Len(names)
    THEN [ret |-> None, extracted |-> extracted]
    ELSE IF EndsWithAny(lower(names[k]), spreadsheet_extensions)
         THEN LET written == Append(extracted, ZipExtractTarget(extraction_directory, names[k]))
                  extracted_path == PathJoin(extraction_directory, names[k])
              IN  IF extract_first_only
                  THEN [ret |-> extracted_path, extracted |-> written]
                  ELSE ScanNamelist(names, k + 1, extraction_directory, extract_first_only, written)
         ELSE ScanNamelist(names, k + 1, extraction_directory, extract_first_only, extracted)

extract_spreadsheet_from_zip(names, extraction_directory, extract_first_only) ==
    ScanNamelist(names, 1, extraction_directory, extract_first_only, <<>>)

extract_all_files_from_zip(names, extraction_directory) ==
    [ret |-> [k \in 1..Len(names) |-> PathJoin(extraction_directory, names[k])],
     extracted |-> [k \in 1..Len(names) |-> ZipExtractTarget(extraction_directory, names[k])]]

-----------------------------------------------------------------------------
(* URLs: urllib.parse as used by url.py and pipeline.py *)

\* The page the pipeline scans, "http://h/p/i.html"
page_url == <<"h", "t", "t", "p", ":", "/", "/", "h", "/", "p", "/", "i", ".", "h", "t", "m", "l">>

SchemeSep == <<":", "/", "/">>

\* urlsplit: the parts of an absolute "scheme://netloc/path?query#fragment"
UrlScheme(url) == Take(url, FirstOf(url, {":"}) - 1)
UrlAfterScheme(url) == Drop(url, FirstOf(url, {":"}) + 2)
UrlNetloc(url) == LET r == UrlAfterScheme(url) IN Take(r, FirstOf(r, {"/", "?", "#"}) - 1)
UrlAfterNetloc(url) == LET r == UrlAfterScheme(url) IN Drop(r, FirstOf(r, {"/", "?", "#"}) - 1)

\* urlparse(url).path: what follows the netloc, up to the first "?" or "#"
urlparse_path(url) ==
    LET r == UrlAfterNetloc(url) IN Take(r, FirstOf(r, {"?", "#"}) - 1)

\* urlsplit raises ValueError("Invalid IPv6 URL") on a netloc with an unmatched bracket
InvalidNetloc(ref) ==
    /\ StartsWith(ref, <<"/", "/">>)
    /\ LET r == Drop(ref, 2)
           netloc == Take(r, FirstOf(r, {"/", "?", "#"}) - 1)
       IN  ("[" \in {netloc[k] : k \in 1..Len(netloc)}) # ("]" \in {netloc[k] : k \in 1..Len(netloc)})

\* urljoin(base, ref) for a non-empty reference without a scheme
urljoin(base, ref) ==
    LET origin == UrlScheme(base) \o SchemeSep \o UrlNetloc(base)
        bpath == urlparse_path(base)
        bdir == Take(bpath, LastOf(bpath, "/"))
    IN  IF InvalidNetloc(ref) THEN [raised |-> TRUE, url |-> None]
        ELSE IF StartsWith(ref, <<"/", "/">>)
             THEN [raised |-> FALSE, url |-> UrlScheme(base) \o <<":">> \o ref]
        ELSE IF ref[1] = "/" THEN [raised |-> FALSE, url |-> origin \o ref]
        ELSE IF ref[1] \in {"?", "#"} THEN [raised |-> FALSE, url |-> origin \o bpath \o ref]
        ELSE [raised |-> FALSE, url |-> origin \o bdir \o ref]

\* url.py
resolve_relative_url(base_url, relative_url) == urljoin(base_url, relative_url)

-----------------------------------------------------------------------------
(* spreadsheet/pipeline.py: link discovery *)

ZIP_EXTENSIONS == {<<".", "z", "i", "p">>}
EXCEL_EXTENSIONS == {<<".", "x", "l", "s">>, <<".", "x", "l", "s", "x">>}

\* a plausible slip: the extension compared without lower()
check_url_has_extension_CaseSensitive(url, extensions) ==
    EndsWithAny(urlparse_path(url), extensions)

check_url_has_extension(url, extensions) ==
    EndsWithAny(lower(urlparse_path(url)), extensions)

\* html.py: requests.get + raise_for_status + find_all("a"); the elements are
\* represented by their href attribute (None when the anchor has none)
extract_html_elements_by_tag(status, anchors) ==
    [raised |-> status # "ok", elements |-> IF status = "ok" THEN anchors ELSE <<>>]

get_element_attribute_value(element) == element

\* The for loop of find_downloadable_files_in_page from anchor k on; an exception
\* (urljoin's ValueError) leaves the loop and is caught by the except clause.
RECURSIVE ScanAnchors(_, _, _)
ScanAnchors(anchors, k, found) ==
    IF k > Len(anchors) THEN found
    ELSE LET href_relative == get_element_attribute_value(anchors[k])
         IN  IF href_relative = None \/ href_relative = <<>>
             THEN ScanAnchors(anchors, k + 1, found)
             ELSE LET r == resolve_relative_url(page_url, href_relative)
                  IN  IF r.raised THEN found
                      ELSE IF r.url = <<>> THEN ScanAnchors(anchors, k + 1, found)
                      ELSE IF \/ check_url_has_extension(r.url, ZIP_EXTENSIONS)
                              \/ check_url_has_extension(r.url, EXCEL_EXTENSIONS)
                           THEN ScanAnchors(anchors, k + 1, Append(found, r.url))
                           ELSE ScanAnchors(anchors, k + 1, found)

\* a plausible slip: no try/except around the page fetch
find_downloadable_files_in_page_NoCatch(status, anchors) ==
    LET e == extract_html_elements_by_tag(status, anchors)
    IN  IF e.raised THEN [raised |-> TRUE, files |-> <<>>]
        ELSE [raised |-> FALSE, files |-> ScanAnchors(e.elements, 1, <<>>)]

find_downloadable_files_in_page(status, anchors) ==
    LET e == extract_html_elements_by_tag(status, anchors)
    IN  IF e.raised THEN [raised |-> FALSE, files |-> <<>>]
        ELSE [raised |-> FALSE, files |-> ScanAnchors(e.elements, 1, <<>>)]

-----------------------------------------------------------------------------
(* downloader.py and the per-candidate steps of spreadsheet/pipeline.py *)

\* download_directory of the run, "d"
download_directory == <<"d">>

downloaded_file == <<"d", "o", "w", "n", "l", "o", "a", "d", "e", "d", "_", "f", "i", "l", "e">>

\* Outcomes of requests.get(url, stream=True) and of writing the body:
\*   "ok"            the whole body was written
\*   "http_error"    raise_for_status raised, before the file was opened
\*   "stream_error"  open(..., "wb") created the file, then a read or write raised
DownloadOutcomes == {"ok", "http_error", "stream_error"}

\* download_file_from_url: the path, whether it raised, whether the file now exists
download_file_from_url(url, directory, outcome) ==
    LET name == PathName(urlparse_path(url))
        filename == IF name = <<>> THEN downloaded_file ELSE name
        local_file_path == PathJoin(directory, filename)
    IN  [raised |-> outcome # "ok",
         path |-> local_file_path,
         written |-> outcome # "http_error"]

\* appends the elements of a sequence of paths to a set of paths
SeqToSet(q) == {q[k] : k \in 1..Len(q)}

\* process_zip_file.  archive is what the downloaded file holds:
\* [corrupt |-> BOOLEAN, names |-> namelist()].
process_zip_file(zip_url, directory, outcome, archive, disk0) ==
    LET dl == download_file_from_url(zip_url, directory, outcome)
        disk1 == IF dl.written THEN disk0 \cup {dl.path} ELSE disk0
        made1 == IF dl.written THEN <<dl.path>> ELSE <<>>
    IN  IF dl.raised
        THEN \* except Exception: log, return None
             [ret |-> None, zip_path |-> None, disk |-> disk1,
              created |-> made1, unlinked |-> <<>>]
        ELSE IF archive.corrupt
        THEN \* zipfile.BadZipFile leaves the try block before zip_path.unlink
             [ret |-> None, zip_path |-> dl.path, disk |-> disk1,
              created |-> made1, unlinked |-> <<>>]
        ELSE LET x == extract_spreadsheet_from_zip(archive.names, directory, TRUE)
                 disk2 == (disk1 \cup SeqToSet(x.extracted)) \ {dl.path}
             IN  [ret |-> x.ret, zip_path |-> dl.path, disk |-> disk2,
                  created |-> made1 \o x.extracted, unlinked |-> <<dl.path>>]

\* process_excel_file
process_excel_file(excel_url, directory, outcome, disk0) ==
    LET dl == download_file_from_url(excel_url, directory, outcome)
    IN  [ret |-> IF dl.raised THEN None ELSE dl.path,
         zip_path |-> None,
         disk |-> IF dl.written THEN disk0 \cup {dl.path} ELSE disk0,
         created |-> IF dl.written THEN <<dl.path>> ELSE <<>>,
         unlinked |-> <<>>]

\* The stage of process_spreadsheet_and_save_to_database that raises, "none" when
\* none does: load_excel_file_to_dataframe, transform_nationalities_data,
\* prepare_data_for_database, save_dataframe_to_sqlite.
Stages == {"load", "transform", "prepare", "save", "none"}

\* a plausible slip: True returned from the except clause as well
process_spreadsheet_and_save_to_database_AlwaysTrue(file_path, failing, store0) ==
    [success |-> TRUE,
     store |-> IF failing = "none" THEN Append(store0, file_path) ELSE store0]

\* process_spreadsheet_and_save_to_database: the store is written by the last
\* statement of the try block, and True is returned only after it.
process_spreadsheet_and_save_to_database(file_path, failing, store0) ==
    [success |-> failing = "none",
     store |-> IF failing = "none" THEN Append(store0, file_path) ELSE store0]

\* plausible slips in the for loop: a break after the first success, and an
\* exception of the fetch/extract step that ends the loop
NextCandidate_BreakOnSuccess(i, fetched, success) ==
    IF success THEN Len(downloadable_files) + 1 ELSE i + 1

NextCandidate_AbortOnFetchFailure(i, fetched, success) ==
    IF ~fetched THEN Len(downloadable_files) + 1 ELSE i + 1

\* The for loop of process_web_page_to_database has no break and no return: the
\* candidate after candidate i is candidate i + 1, whatever happened to i.
NextCandidate(i, fetched, success) == i + 1

-----------------------------------------------------------------------------
(* Inputs *)

SeqsUpTo(S, n) == UNION {[1..k -> S] : k \in 0..n}

\* Archive entry names: "r.txt", "d.xlsx", "B.XLS", "/e.xlsx", "s/f.xls" and the
\* directory entry "x.xlsx/"
EntryNames ==
    {<<"r", ".", "t", "x", "t">>,
     <<"d", ".", "x", "l", "s", "x">>,
     <<"B", ".", "X", "L", "S">>,
     <<"/", "e", ".", "x", "l", "s", "x">>,
     <<"s", "/", "f", ".", "x", "l", "s">>,
     <<"x", ".", "x", "l", "s", "x", "/">>}

\* href values: absent, "", "/a.pdf", "/b.xlsx", "/c.zip", "d.ZIP?v", "g?f.zip",
\* "#f.xls" and "//[" (which urljoin rejects)
Hrefs ==
    {None,
     <<>>,
     <<"/", "a", ".", "p", "d", "f">>,
     <<"/", "b", ".", "x", "l", "s", "x">>,
     <<"/", "c", ".", "z", "i", "p">>,
     <<"d", ".", "Z", "I", "P", "?", "v">>,
     <<"g", "?", "f", ".", "z", "i", "p">>,
     <<"#", "f", ".", "x", "l", "s">>,
     <<"/", "/", "[">>}

PageStatuses == {"ok", "http_error", "transport_error"}

\* The anchors of the page the orchestrator is run on: "/a.pdf", "/b.xlsx", "/c.zip"
OrchHrefs ==
    {<<"/", "a", ".", "p", "d", "f">>,
     <<"/", "b", ".", "x", "l", "s", "x">>,
     <<"/", "c", ".", "z", "i", "p">>}

\* What a downloaded archive may hold: a corrupt container, no spreadsheet, a
\* spreadsheet after another file, a spreadsheet stored under an absolute name
OrchArchives ==
    {[corrupt |-> TRUE, names |-> <<>>],
     [corrupt |-> FALSE, names |-> << <<"r", ".", "t", "x", "t">> >>],
     [corrupt |-> FALSE, names |-> << <<"r", ".", "t", "x", "t">>, <<"d", ".", "x", "l", "s", "x">> >>],
     [corrupt |-> FALSE, names |-> << <<"/", "e", ".", "x", "l", "s", "x">> >>]}

-----------------------------------------------------------------------------
(* Archive extraction called on its own *)

ZIdle ==
    /\ z_pc = "idle" /\ z_names = <<>> /\ z_op = "none"
    /\ z_ret = None /\ z_list = <<>> /\ z_extracted = <<>>

DIdle ==
    /\ d_pc = "idle" /\ d_anchors = <<>> /\ d_status = "ok"
    /\ d_raised = FALSE /\ d_files = <<>>

OIdle ==
    /\ pc = "idle" /\ page = <<>> /\ downloadable_files = <<>> /\ idx = 0
    /\ zip_path = None /\ excel_file = None /\ processed_file = None
    /\ result = None /\ disk = {} /\ createdLog = <<>> /\ unlinkedLog = <<>>
    /\ log = <<>> /\ store = <<>>

\* A DataFrame: column names in order and rows, each row one cell per column
EmptyFrame == [cols |-> <<>>, rows |-> <<>>]

\* no table of that name in the database
NoTable == [cols |-> <<"<no table>">>, rows |-> <<>>]

TIdle ==
    /\ t_pc = "idle" /\ t_table = EmptyFrame /\ t_op = "none"
    /\ t_metadata = <<>> /\ t_mapping = <<>> /\ t_required = {}
    /\ t_out = EmptyFrame /\ t_again = EmptyFrame /\ t_raised = FALSE

SIdle ==
    /\ s_store = NoTable /\ s_before = NoTable /\ s_frame = EmptyFrame
    /\ s_policy = "none" /\ s_raised = FALSE /\ s_calls = 0

PIdle ==
    /\ p_pc = "idle" /\ p_rows = 0 /\ p_frame = 0 /\ p_trace = <<>>
    /\ p_written = <<>> /\ p_result = "none"

NIdle ==
    /\ n_pc = "idle"
    /\ n_env = [status |-> "ok", linked |-> FALSE, download |-> "ok", failing |-> "none"]
    /\ n_result = "none"

MIdle ==
    /\ m_pc = "idle" /\ m_pipelines = <<>> /\ m_i = 0 /\ m_results = <<>>
    /\ m_calls = <<>> /\ m_ret = "none"

XIdle == TIdle /\ SIdle /\ PIdle /\ NIdle /\ MIdle

ZipInit ==
    /\ z_pc = "call"
    /\ z_names \in SeqsUpTo(EntryNames, MaxEntries)
    /\ z_op = "none" /\ z_ret = None /\ z_list = <<>> /\ z_extracted = <<>>
    /\ DIdle /\ OIdle /\ XIdle

\* extract_spreadsheet_from_zip(zip, dir)  (extract_first_only defaults to True)
ExtractFirst ==
    /\ z_pc = "call"
    /\ LET x == extract_spreadsheet_from_zip(z_names, download_directory, TRUE)
       IN  /\ z_ret' = x.ret
           /\ z_extracted' = x.extracted
    /\ z_op' = "first"
    /\ z_list' = <<>>
    /\ z_pc' = "done"
    /\ UNCHANGED <<z_names, dvars, ovars, xvars>>

\* extract_spreadsheet_from_zip(zip, dir, extract_first_only=False)
ExtractEvery ==
    /\ z_pc = "call"
    /\ LET x == extract_spreadsheet_from_zip(z_names, download_directory, FALSE)
       IN  /\ z_ret' = x.ret
           /\ z_extracted' = x.extracted
    /\ z_op' = "every"
    /\ z_list' = <<>>
    /\ z_pc' = "done"
    /\ UNCHANGED <<z_names, dvars, ovars, xvars>>

\* extract_all_files_from_zip(zip, dir)
ExtractAllFiles ==
    /\ z_pc = "call"
    /\ LET x == extract_all_files_from_zip(z_names, download_directory)
       IN  /\ z_list' = x.ret
           /\ z_extracted' = x.extracted
    /\ z_op' = "all_files"
    /\ z_ret' = None
    /\ z_pc' = "done"
    /\ UNCHANGED <<z_names, dvars, ovars, xvars>>

ZipNext == ExtractFirst \/ ExtractEvery \/ ExtractAllFiles

SpecZip == ZipInit /\ [][ZipNext]_vars

-----------------------------------------------------------------------------
(* Link discovery called on its own *)

DiscoveryInit ==
    /\ d_pc = "call"
    /\ d_anchors \in SeqsUpTo(Hrefs, MaxAnchors)
    /\ d_status \in PageStatuses
    /\ d_raised = FALSE /\ d_files = <<>>
    /\ ZIdle /\ OIdle /\ XIdle

\* find_downloadable_files_in_page(page_url)
Discover ==
    /\ d_pc = "call"
    /\ LET r == find_downloadable_files_in_page(d_status, d_anchors)
       IN  /\ d_raised' = r.raised
           /\ d_files' = r.files
    /\ d_pc' = "done"
    /\ UNCHANGED <<d_anchors, d_status, zvars, ovars, xvars>>

DiscoveryNext == Discover

SpecDiscovery == DiscoveryInit /\ [][DiscoveryNext]_vars

-----------------------------------------------------------------------------
(* The orchestrator: process_web_page_to_database(page_url, download_directory) *)

Init ==
    /\ pc = "start"
    /\ page \in SeqsUpTo(OrchHrefs, MaxLinks)
    /\ downloadable_files = <<>> /\ idx = 0
    /\ zip_path = None /\ excel_file = None /\ processed_file = None
    /\ result = None /\ disk = {} /\ createdLog = <<>> /\ unlinkedLog = <<>>
    /\ log = <<>> /\ store = <<>>
    /\ ZIdle /\ DIdle /\ XIdle

\* download_directory.mkdir(parents=True, exist_ok=True) raises (the path is a
\* regular file, a parent is not writable): the statement is outside every try.
MkdirRaises ==
    /\ pc = "start"
    /\ pc' = "raised"
    /\ UNCHANGED <<page, downloadable_files, idx, zip_path, excel_file, processed_file,
                   result, disk, createdLog, unlinkedLog, log, store, zvars, dvars, xvars>>

\* mkdir succeeded; find_downloadable_files_in_page; the early return on no file
FindFiles ==
    /\ pc = "start"
    /\ \E status \in PageStatuses :
         LET r == find_downloadable_files_in_page(status, page)
         IN  IF r.raised
             THEN /\ pc' = "raised"
                  /\ UNCHANGED <<downloadable_files, idx, result>>
             ELSE /\ downloadable_files' = r.files
                  /\ IF r.files = <<>>
                     THEN pc' = "done" /\ result' = None /\ idx' = idx
                     ELSE pc' = "loop" /\ idx' = 1 /\ result' = result
    /\ UNCHANGED <<page, zip_path, excel_file, processed_file, disk, createdLog,
                   unlinkedLog, log, store, zvars, dvars, xvars>>

\* One iteration, first half: the ZIP branch (process_zip_file)
FetchZip ==
    /\ pc = "loop" /\ idx <= Len(downloadable_files)
    /\ check_url_has_extension(downloadable_files[idx], ZIP_EXTENSIONS)
    /\ \E outcome \in DownloadOutcomes, archive \in OrchArchives :
         LET r == process_zip_file(downloadable_files[idx], download_directory,
                                   outcome, archive, disk)
         IN  /\ excel_file' = r.ret
             /\ zip_path' = r.zip_path
             /\ disk' = r.disk
             /\ createdLog' = createdLog \o r.created
             /\ unlinkedLog' = unlinkedLog \o r.unlinked
             /\ log' = Append(log, [idx |-> idx, download |-> outcome,
                                    fetched |-> r.ret # None, file |-> r.ret,
                                    failing |-> "pending"])
    /\ pc' = "fetched"
    /\ UNCHANGED <<page, downloadable_files, idx, processed_file, result, store,
                   zvars, dvars, xvars>>

\* One iteration, first half: the Excel branch (process_excel_file)
FetchExcel ==
    /\ pc = "loop" /\ idx <= Len(downloadable_files)
    /\ ~check_url_has_extension(downloadable_files[idx], ZIP_EXTENSIONS)
    /\ check_url_has_extension(downloadable_files[idx], EXCEL_EXTENSIONS)
    /\ \E outcome \in DownloadOutcomes :
         LET r == process_excel_file(downloadable_files[idx], download_directory,
                                     outcome, disk)
         IN  /\ excel_file' = r.ret
             /\ zip_path' = r.zip_path
             /\ disk' = r.disk
             /\ createdLog' = createdLog \o r.created
             /\ unlinkedLog' = unlinkedLog \o r.unlinked
             /\ log' = Append(log, [idx |-> idx, download |-> outcome,
                                    fetched |-> r.ret # None, file |-> r.ret,
                                    failing |-> "pending"])
    /\ pc' = "fetched"
    /\ UNCHANGED <<page, downloadable_files, idx, processed_file, result, store,
                   zvars, dvars, xvars>>

\* One iteration, second half: excel_file and excel_file.exists(), then
\* process_spreadsheet_and_save_to_database(excel_file)
ProcessSpreadsheet ==
    /\ pc = "fetched"
    /\ excel_file # None /\ excel_file \in disk
    /\ \E failing \in Stages :
         LET r == process_spreadsheet_and_save_to_database(excel_file, failing, store)
         IN  /\ store' = r.store
             /\ processed_file' = IF r.success THEN excel_file ELSE processed_file
             /\ log' = [log EXCEPT ![Len(log)].failing = failing]
             /\ idx' = NextCandidate(idx, TRUE, r.success)
    /\ pc' = "loop"
    /\ UNCHANGED <<page, downloadable_files, zip_path, excel_file, result, disk,
                   createdLog, unlinkedLog, zvars, dvars, xvars>>

\* One iteration, second half: no usable spreadsheet, nothing is processed
SkipSpreadsheet ==
    /\ pc = "fetched"
    /\ ~(excel_file # None /\ excel_file \in disk)
    /\ log' = [log EXCEPT ![Len(log)].failing = "skipped"]
    /\ idx' = NextCandidate(idx, excel_file # None, FALSE)
    /\ pc' = "loop"
    /\ UNCHANGED <<page, downloadable_files, zip_path, excel_file, processed_file,
                   result, disk, createdLog, unlinkedLog, store, zvars, dvars, xvars>>

\* The loop is over: return processed_file
Return ==
    /\ pc = "loop" /\ idx > Len(downloadable_files)
    /\ result' = processed_file
    /\ pc' = "done"
    /\ UNCHANGED <<page, downloadable_files, idx, zip_path, excel_file, processed_file,
                   disk, createdLog, unlinkedLog, log, store, zvars, dvars, xvars>>

Next ==
    \/ MkdirRaises
    \/ FindFiles
    \/ FetchZip
    \/ FetchExcel
    \/ ProcessSpreadsheet
    \/ SkipSpreadsheet
    \/ Return

Spec == Init /\ [][Next]_vars

-----------------------------------------------------------------------------
(* Properties *)

Count(q, x) == Cardinality({k \in 1..Len(q) : q[k] = x})

Recognized == ZIP_EXTENSIONS \cup EXCEL_EXTENSIONS

\* the attempts of the run that loaded, transformed and persisted a spreadsheet
Succeeded == {k \in 1..Len(log) : log[k].fetched /\ log[k].failing = "none"}

\* C1: every local file the run created (downloaded archive, downloaded
\* spreadsheet, extracted spreadsheet) has been deleted exactly once, and is gone,
\* when process_web_page_to_database returns.
C1_EveryArtifactDeletedOnce ==
    pc = "done" =>
        \A p \in SeqToSet(createdLog) :
            /\ Count(unlinkedLog, p) = Count(createdLog, p)
            /\ p \notin disk

C2_LastSuccessFile ==
    IF Succeeded = {} THEN None
    ELSE log[CHOOSE k \in Succeeded : \A j \in Succeeded : j <= k].file

C3_FetchFailureDoesNotAbort ==
    /\ pc = "raised" => log = <<>>
    /\ (pc = "loop" /\ log # <<>> /\ ~log[Len(log)].fetched) =>
            idx = log[Len(log)].idx + 1
    /\ pc = "done" =>
        \A k \in 1..Len(log) :
            (~log[k].fetched /\ log[k].idx < Len(downloadable_files)) =>
                \E j \in 1..Len(log) : log[j].idx = log[k].idx + 1

\* a run of three candidates whose second failed to download and whose third
\* was then attempted
C3_Witness ==
    /\ pc = "done"
    /\ Len(log) = 3
    /\ log[2].download = "http_error" /\ ~log[2].fetched
    /\ log[3].idx = 3

\* C4: no exception crosses the boundary of process_web_page_to_database.
C4_NoExceptionCrosses == pc # "raised"

HrefEndsRecognized(h) == h \notin {None, <<>>} /\ EndsWithAny(lower(h), Recognized)

Unresolvable(h) == h \notin {None, <<>>} /\ urljoin(page_url, h).raised

PathEndsRecognized(h) ==
    /\ h \notin {None, <<>>}
    /\ EndsWithAny(lower(urlparse_path(urljoin(page_url, h).url)), Recognized)

C8_ArchiveGoneAfterAttempt ==
    (pc = "fetched" /\ zip_path # None) => zip_path \notin disk

IsSpreadsheetName(n) == EndsWithAny(lower(n), spreadsheet_extensions)

\* C9: in first-only mode exactly one entry is extracted, the first whose name
\* ends in .xlsx or .xls, and the value returned is its path under the destination
\* directory; nothing is extracted and None is returned when no entry matches.
C9_FirstSpreadsheetExtractedAndReturned ==
    (z_pc = "done" /\ z_op = "first") =>
        LET match == {k \in 1..Len(z_names) : IsSpreadsheetName(z_names[k])}
        IN  IF match = {}
            THEN z_ret = None /\ z_extracted = <<>>
            ELSE LET first == CHOOSE k \in match : \A j \in match : k <= j
                 IN  /\ z_extracted = <<ZipExtractTarget(download_directory, z_names[first])>>
                     /\ z_ret = z_extracted[1]
                     /\ StartsWith(z_ret, download_directory \o <<"/">>)

\* C10: the extract-all variant extracts the entries with a spreadsheet
\* extension, only those, and returns their paths in archive order.
C10_ExtractAllReturnsSpreadsheets ==
    (z_pc = "done" /\ z_op \in {"every", "all_files"}) =>
        LET kept == SelectSeq(z_names, IsSpreadsheetName)
            returned == IF z_op = "all_files" THEN z_list
                        ELSE IF z_ret = None THEN <<>> ELSE <<z_ret>>
        IN  /\ z_extracted = [k \in 1..Len(kept) |-> ZipExtractTarget(download_directory, kept[k])]
            /\ returned = [k \in 1..Len(kept) |-> PathJoin(download_directory, kept[k])]

-----------------------------------------------------------------------------
(* database_loader.py: save_dataframe_to_sqlite *)

MaxSaves == 3       \* calls of save_dataframe_to_sqlite on one table name

SqlNull == "NULL"

Policies == {"fail", "replace", "append"}

\* position of a column name in a sequence of column names
ColumnIndex(cols, c) == CHOOSE k \in 1..Len(cols) : cols[k] = c

ColumnSet(frame) == {frame.cols[k] : k \in 1..Len(frame.cols)}

\* DataFrame.empty: some axis has length 0
IsEmptyFrame(frame) == Len(frame.rows) = 0 \/ Len(frame.cols) = 0

\* The row INSERT INTO t (frame.cols) VALUES (row) leaves in a table of columns
\* cols: values go to the column of the same name, the other columns are NULL.
InsertedRow(cols, frame, row) ==
    [k \in 1..Len(cols) |->
        IF cols[k] \in ColumnSet(frame) THEN row[ColumnIndex(frame.cols, cols[k])]
        ELSE SqlNull]

\* DataFrame.to_sql(table_name, conn, if_exists=..., index=False) inside
\* "with sqlite3.connect(...)": [raised, store]
to_sql(frame, store0, if_exists) ==
    IF store0 = NoTable \/ if_exists = "replace"
    THEN [raised |-> FALSE, store |-> [cols |-> frame.cols, rows |-> frame.rows]]
    ELSE IF if_exists = "fail"
    THEN [raised |-> TRUE, store |-> store0]
    ELSE IF ~(ColumnSet(frame) \subseteq ColumnSet(store0))
    THEN \* sqlite3.OperationalError: table has no column named ...
         [raised |-> TRUE, store |-> store0]
    ELSE [raised |-> FALSE,
          store |-> [cols |-> store0.cols,
                     rows |-> store0.rows \o
                              [k \in 1..Len(frame.rows) |->
                                  InsertedRow(store0.cols, frame, frame.rows[k])]]]

\* a plausible slip: the guard on dataframe.empty is missing
save_dataframe_to_sqlite_NoEmptyCheck(dataframe, store0, if_exists) ==
    to_sql(dataframe, store0, if_exists)

\* a plausible slip: if_exists is not handed on, the default "append" is used
save_dataframe_to_sqlite_AlwaysAppend(dataframe, store0, if_exists) ==
    IF IsEmptyFrame(dataframe)
    THEN [raised |-> TRUE, store |-> store0]
    ELSE to_sql(dataframe, store0, "append")

save_dataframe_to_sqlite(dataframe, store0, if_exists) ==
    IF IsEmptyFrame(dataframe)
    THEN [raised |-> TRUE, store |-> store0]
    ELSE to_sql(dataframe, store0, if_exists)

\* The DataFrames offered to the sink: two columns with one row and with two
\* rows, the columns in the other order, a subset of the columns, a column the
\* table does not have, no row, neither row nor column
SinkFrames ==
    {[cols |-> <<"a", "b">>, rows |-> << <<"x", "y">> >>],
     [cols |-> <<"a", "b">>, rows |-> << <<"y", "y">>, <<"x", "x">> >>],
     [cols |-> <<"b", "a">>, rows |-> << <<"x", "y">> >>],
     [cols |-> <<"a">>, rows |-> << <<"y">> >>],
     [cols |-> <<"c">>, rows |-> << <<"x">> >>],
     [cols |-> <<"a", "b">>, rows |-> <<>>],
     EmptyFrame}

SinkInit ==
    /\ SIdle
    /\ ZIdle /\ DIdle /\ OIdle /\ TIdle /\ PIdle /\ NIdle /\ MIdle

\* save_dataframe_to_sqlite(dataframe, database_path, table_name, if_exists)
Save ==
    /\ s_calls < MaxSaves
    /\ \E frame \in SinkFrames, if_exists \in Policies :
         LET r == save_dataframe_to_sqlite(frame, s_store, if_exists)
         IN  /\ s_store' = r.store
             /\ s_raised' = r.raised
             /\ s_frame' = frame
             /\ s_policy' = if_exists
    /\ s_before' = s_store
    /\ s_calls' = s_calls + 1
    /\ UNCHANGED <<zvars, dvars, ovars, tvars, pvars, nvars, mvars>>

SinkNext == Save

SpecSink == SinkInit /\ [][SinkNext]_vars

\* C11: a save of a table of zero rows raises and leaves the store as it was: no
\* table is created, replaced or appended to, whatever the policy.
C11_EmptyFrameRaisesAndStoreUnchanged ==
    (s_calls > 0 /\ Len(s_frame.rows) = 0) =>
        /\ s_raised
        /\ s_store = s_before

\* a zero-row table offered with policy replace to an existing table
C11_Witness ==
    /\ s_calls > 0 /\ Len(s_frame.rows) = 0 /\ Len(s_frame.cols) > 0
    /\ s_policy = "replace" /\ s_before # NoTable
    /\ s_raised /\ s_store = s_before

\* C12: after every save in a sequence of saves to one table name: replace
\* leaves exactly the rows and columns of the saved table; a successful append to
\* an existing table leaves its rows unaltered, followed by the new rows; fail
\* raises and changes nothing when the table exists.
C12_PolicyDecidesRows ==
    s_calls > 0 =>
        /\ (s_policy = "replace" /\ ~IsEmptyFrame(s_frame)) =>
              /\ ~s_raised
              /\ s_store.rows = s_frame.rows
              /\ Len(s_store.rows) = Len(s_frame.rows)
              /\ ColumnSet(s_store) = ColumnSet(s_frame)
        /\ (s_policy = "append" /\ ~s_raised /\ s_before # NoTable) =>
              /\ s_store.cols = s_before.cols
              /\ Len(s_store.rows) = Len(s_before.rows) + Len(s_frame.rows)
              /\ SubSeq(s_store.rows, 1, Len(s_before.rows)) = s_before.rows
              /\ \A k \in 1..Len(s_frame.rows) : \A c \in 1..Len(s_frame.cols) :
                    s_store.rows[Len(s_before.rows) + k]
                        [ColumnIndex(s_store.cols, s_frame.cols[c])] = s_frame.rows[k][c]
        /\ (s_policy = "fail" /\ s_before # NoTable) =>
              /\ s_raised
              /\ s_store = s_before

\* third save of a sequence: two rows appended to a table that already has rows,
\* after a replace would have been possible
C12_Witness ==
    /\ s_calls = 3 /\ s_policy = "append" /\ ~s_raised
    /\ Len(s_before.rows) >= 2 /\ Len(s_frame.rows) = 2
    /\ Len(s_store.rows) = Len(s_before.rows) + 2

-----------------------------------------------------------------------------
(* DataFrames: the pandas operations used by transform.py and the pipelines *)

MaxRows == 2        \* rows of a DataFrame handed to a transformation

\* a missing cell (NaN); the other cells are strings
NaN == None

HasColumn(frame, c) == c \in ColumnSet(frame)

\* the cells of column c, top to bottom
ColumnCells(frame, c) ==
    [k \in 1..Len(frame.rows) |-> frame.rows[k][ColumnIndex(frame.cols, c)]]

\* the frame with the rows of the given positions only, in order
KeepRows(frame, keep) ==
    LET RECURSIVE Pick(_)
        Pick(k) == IF k > Len(frame.rows) THEN <<>>
                   ELSE (IF k \in keep THEN <<frame.rows[k]>> ELSE <<>>) \o Pick(k + 1)
    IN  [cols |-> frame.cols, rows |-> Pick(1)]

\* the frame with the columns of the given positions only, in order
KeepColumns(frame, keep) ==
    LET RECURSIVE Pick(_, _)
        Pick(q, k) == IF k > Len(q) THEN <<>>
                      ELSE (IF k \in keep THEN <<q[k]>> ELSE <<>>) \o Pick(q, k + 1)
    IN  [cols |-> Pick(frame.cols, 1),
         rows |-> [r \in 1..Len(frame.rows) |-> Pick(frame.rows[r], 1)]]

\* df.dropna(how='all'): rows without any non-missing cell are dropped
dropna_rows_all(frame) ==
    KeepRows(frame, {k \in 1..Len(frame.rows) :
                        \E c \in 1..Len(frame.cols) : frame.rows[k][c] # NaN})

\* df.dropna(axis=1, how='all'): columns without any non-missing cell are dropped
dropna_columns_all(frame) ==
    KeepColumns(frame, {c \in 1..Len(frame.cols) :
                           \E k \in 1..Len(frame.rows) : frame.rows[k][c] # NaN})

\* df[key] = value: a constant column, appended when key is new, else overwritten
set_column(frame, key, value) ==
    IF HasColumn(frame, key)
    THEN [cols |-> frame.cols,
          rows |-> [k \in 1..Len(frame.rows) |->
                       [frame.rows[k] EXCEPT ![ColumnIndex(frame.cols, key)] = value]]]
    ELSE [cols |-> Append(frame.cols, key),
          rows |-> [k \in 1..Len(frame.rows) |-> Append(frame.rows[k], value)]]

\* a dict as the sequence of its items <<key, value>>, keys distinct
DictKeys(d) == {d[k][1] : k \in 1..Len(d)}
DictGet(d, key) == d[CHOOSE k \in 1..Len(d) : d[k][1] = key][2]

\* df.rename(columns=mapping): every column that is a key gets its value, at once
rename_columns(frame, mapping) ==
    [cols |-> [k \in 1..Len(frame.cols) |->
                  IF frame.cols[k] \in DictKeys(mapping)
                  THEN DictGet(mapping, frame.cols[k]) ELSE frame.cols[k]],
     rows |-> frame.rows]

-----------------------------------------------------------------------------
(* spreadsheet/transform.py *)

\* a plausible slip: the second dropna applied to df instead of df_cleaned
remove_empty_rows_and_columns_OfInput(df) == dropna_columns_all(df)

remove_empty_rows_and_columns(df) ==
    LET df_cleaned == dropna_rows_all(df)
    IN  dropna_columns_all(df_cleaned)

apply_column_mapping(df, column_mapping) ==
    LET RECURSIVE Existing(_)
        Existing(k) ==
            IF k > Len(column_mapping) THEN <<>>
            ELSE (IF HasColumn(df, column_mapping[k][1])
                  THEN <<column_mapping[k]>> ELSE <<>>) \o Existing(k + 1)
        existing_mapping == Existing(1)
    IN  IF existing_mapping # <<>> THEN rename_columns(df, existing_mapping) ELSE df

\* a plausible slip: the error raised only when every required column is missing
validate_required_columns_AllMissing(df, required_columns) ==
    [raised |-> required_columns # {} /\ \A c \in required_columns : ~HasColumn(df, c),
     df |-> df]

\* validate_required_columns: [raised, df]
validate_required_columns(df, required_columns) ==
    LET missing_columns == {c \in required_columns : ~HasColumn(df, c)}
    IN  [raised |-> missing_columns # {}, df |-> df]

\* pd.Timestamp.now().isoformat()
Timestamp == <<"t">>

\* The loop of add_metadata_columns over metadata.items(), from item k on
RECURSIVE AssignMetadata(_, _, _)
AssignMetadata(df, metadata, k) ==
    IF k > Len(metadata) THEN df
    ELSE AssignMetadata(set_column(df, metadata[k][1], metadata[k][2]), metadata, k + 1)

add_metadata_columns(df, metadata) ==
    LET df_with_metadata == AssignMetadata(df, metadata, 1)
    IN  IF ~HasColumn(df_with_metadata, "fecha_procesamiento")
        THEN set_column(df_with_metadata, "fecha_procesamiento", Timestamp)
        ELSE df_with_metadata

-----------------------------------------------------------------------------
(* pandas string columns *)

\* Series.astype(str): a missing cell becomes the text 'nan' before pandas 3,
\* and stays missing from pandas 3 on; either build is possible
astype_str(cell, na_kept) ==
    IF cell = NaN THEN (IF na_kept THEN NaN ELSE <<"n", "a", "n">>) ELSE cell

RECURSIVE lstrip(_)
lstrip(s) == IF s # <<>> /\ s[1] = " " THEN lstrip(Tail(s)) ELSE s

RECURSIVE rstrip(_)
rstrip(s) == IF s # <<>> /\ s[Len(s)] = " " THEN rstrip(Take(s, Len(s) - 1)) ELSE s

\* Series.str.strip(): missing cells stay missing
str_strip(cell) == IF cell = NaN THEN NaN ELSE lstrip(rstrip(cell))

RECURSIVE zfill(_, _)
zfill(s, width) == IF Len(s) >= width THEN s ELSE zfill(<<"0">> \o s, width)

\* Series.str.zfill(width): missing cells stay missing
str_zfill(cell, width) == IF cell = NaN THEN NaN ELSE zfill(cell, width)

\* df.dropna(subset=subset): [raised, df]; KeyError when a name is no column
dropna_subset(frame, subset) ==
    IF \E c \in subset : ~HasColumn(frame, c)
    THEN [raised |-> TRUE, df |-> frame]
    ELSE [raised |-> FALSE,
          df |-> KeepRows(frame, {k \in 1..Len(frame.rows) :
                    \A c \in subset : frame.rows[k][ColumnIndex(frame.cols, c)] # NaN})]

\* the cells of the row under the named columns
RowKey(frame, subset, k) ==
    [c \in subset |-> frame.rows[k][ColumnIndex(frame.cols, c)]]

\* a plausible slip: keep='last'
drop_duplicates_KeepLast(frame, subset) ==
    KeepRows(frame, {k \in 1..Len(frame.rows) :
        \A j \in (k + 1)..Len(frame.rows) : RowKey(frame, subset, j) # RowKey(frame, subset, k)})

\* df.drop_duplicates(subset=subset, keep='first'); missing cells compare equal
drop_duplicates(frame, subset) ==
    KeepRows(frame, {k \in 1..Len(frame.rows) :
        \A j \in 1..(k - 1) : RowKey(frame, subset, j) # RowKey(frame, subset, k)})

-----------------------------------------------------------------------------
(* nacionalidades.py and ejemplo_nuevo_pipeline.py *)

NATIONALITIES_BASE_URL == <<"u">>

\* cleaned_df[col] = cleaned_df[col].astype(str).str.strip()
StripColumn(frame, col, na_kept) ==
    [cols |-> frame.cols,
     rows |-> [k \in 1..Len(frame.rows) |->
                  [frame.rows[k] EXCEPT ![ColumnIndex(frame.cols, col)] =
                      str_strip(astype_str(@, na_kept))]]]

\* cleaned_df[col] = cleaned_df[col].astype(str).str.zfill(3)
FillColumn(frame, col, na_kept) ==
    [cols |-> frame.cols,
     rows |-> [k \in 1..Len(frame.rows) |->
                  [frame.rows[k] EXCEPT ![ColumnIndex(frame.cols, col)] =
                      str_zfill(astype_str(@, na_kept), 3)]]]

\* The loop of clean_nationality_data over text_columns
RECURSIVE StripTextColumns(_, _, _, _)
StripTextColumns(df, text_columns, k, na_kept) ==
    IF k > Len(text_columns) THEN df
    ELSE LET col == text_columns[k]
         IN  StripTextColumns(IF HasColumn(df, col) THEN StripColumn(df, col, na_kept) ELSE df,
                              text_columns, k + 1, na_kept)

\* clean_nationality_data: [raised, df]
clean_nationality_data(df, na_kept) ==
    LET dropped == dropna_rows_all(df)
        text_columns == <<"codigo_pais", "pais", "clave_nacionalidad">>
        stripped == StripTextColumns(dropped, text_columns, 1, na_kept)
        filled == IF HasColumn(stripped, "codigo_pais")
                  THEN FillColumn(stripped, "codigo_pais", na_kept) ELSE stripped
        critical_columns == {"codigo_pais", "pais"}
        kept == dropna_subset(filled, critical_columns)
    IN  IF kept.raised THEN [raised |-> TRUE, df |-> df]
        ELSE [raised |-> FALSE,
              df |-> set_column(set_column(kept.df, "fecha_procesamiento", Timestamp),
                                "fuente", NATIONALITIES_BASE_URL)]

\* validate_nationality_data: [raised, df]; the match of the codes against
\* ^\d{3}$ only logs, but its mask cannot be built over a missing code
validate_nationality_data(df) ==
    LET required_columns == {"codigo_pais", "pais"}
        missing_columns == {c \in required_columns : ~HasColumn(df, c)}
    IN  IF missing_columns # {} THEN [raised |-> TRUE, df |-> df]
        ELSE LET deduplicated == drop_duplicates(df, {"codigo_pais"})
             IN  IF \E k \in 1..Len(deduplicated.rows) :
                        ColumnCells(deduplicated, "codigo_pais")[k] = NaN
                 THEN [raised |-> TRUE, df |-> df]
                 ELSE [raised |-> FALSE, df |-> deduplicated]

\* validate_example_data: [raised, df]
validate_example_data(df) ==
    LET required_columns == {"columna_1"}
        missing_columns == {c \in required_columns : ~HasColumn(df, c)}
    IN  IF missing_columns # {} THEN [raised |-> TRUE, df |-> df]
        ELSE [raised |-> FALSE, df |-> drop_duplicates(df, ColumnSet(df))]

-----------------------------------------------------------------------------
(* Specification: one transformation applied to one DataFrame *)

Cells == {NaN, <<"7">>, <<"M", "X", " ">>}

Schemas ==
    {<<"codigo_pais", "pais">>, <<"pais", "fuente">>, <<"codigo pais", "pais">>,
     <<"columna_1", "columna_2">>, <<"pais">>, <<>>}

Rows(cols) == [1..Len(cols) -> Cells]

TableInputs ==
    {[cols |-> cols, rows |-> rows] :
        cols \in Schemas, rows \in {<<>>}} \cup
    UNION {{[cols |-> cols, rows |-> rows] : rows \in SeqsUpTo(Rows(cols), MaxRows)} :
              cols \in Schemas \ {<<>>}}

COLUMN_MAPPING ==
    <<<<"codigo pais", "codigo_pais">>, <<"pais", "pais">>,
      <<"clave nacionalidad", "clave_nacionalidad">>>>

Mappings == {COLUMN_MAPPING, <<<<"pais", "fuente">>, <<"fuente", "pais">>>>, <<>>}

RequiredSets == {{"codigo_pais", "pais"}, {"fuente"}, {}}

Metadatas ==
    {<<>>, <<<<"fuente", <<"y">>>>>>,
     <<<<"fecha_procesamiento", <<"y">>>>, <<"origen", <<"z">>>>>>}

TableInit ==
    /\ t_pc = "ready"
    /\ t_table \in TableInputs
    /\ t_op = "none"
    /\ t_metadata = <<>>
    /\ t_mapping = <<>>
    /\ t_required = {}
    /\ t_out = EmptyFrame
    /\ t_again = EmptyFrame
    /\ t_raised = FALSE
    /\ ZIdle /\ DIdle /\ OIdle /\ SIdle /\ PIdle /\ NIdle /\ MIdle

TableRest == <<zvars, dvars, ovars, svars, pvars, nvars, mvars>>

AddMetadata ==
    /\ t_pc = "ready"
    /\ \E metadata \in Metadatas :
        /\ t_metadata' = metadata
        /\ t_out' = add_metadata_columns(t_table, metadata)
    /\ t_op' = "add_metadata_columns"
    /\ t_pc' = "done"
    /\ UNCHANGED <<t_table, t_mapping, t_required, t_again, t_raised>>
    /\ UNCHANGED TableRest

MapAndValidate ==
    /\ t_pc = "ready"
    /\ \E column_mapping \in Mappings, required_columns \in RequiredSets :
        LET df_mapped == apply_column_mapping(t_table, column_mapping)
            validated == validate_required_columns(df_mapped, required_columns)
        IN  /\ t_mapping' = column_mapping
            /\ t_required' = required_columns
            /\ t_out' = df_mapped
            /\ t_raised' = validated.raised
    /\ t_op' = "apply_column_mapping"
    /\ t_pc' = "done"
    /\ UNCHANGED <<t_table, t_metadata, t_again>>
    /\ UNCHANGED TableRest

RemoveEmpty ==
    /\ t_pc = "ready"
    /\ t_out' = remove_empty_rows_and_columns(t_table)
    /\ t_again' = remove_empty_rows_and_columns(remove_empty_rows_and_columns(t_table))
    /\ t_op' = "remove_empty_rows_and_columns"
    /\ t_pc' = "done"
    /\ UNCHANGED <<t_table, t_metadata, t_mapping, t_required, t_raised>>
    /\ UNCHANGED TableRest

CleanNationality ==
    /\ t_pc = "ready"
    /\ \E na_kept \in BOOLEAN :
        LET cleaned == clean_nationality_data(t_table, na_kept)
        IN  /\ t_out' = cleaned.df
            /\ t_raised' = cleaned.raised
            /\ t_op' = IF na_kept THEN "clean_nationality_data (pandas 3)"
                       ELSE "clean_nationality_data"
    /\ t_pc' = "done"
    /\ UNCHANGED <<t_table, t_metadata, t_mapping, t_required, t_again>>
    /\ UNCHANGED TableRest

ValidateNationality ==
    /\ t_pc = "ready"
    /\ LET validated == validate_nationality_data(t_table)
       IN  /\ t_out' = validated.df
           /\ t_raised' = validated.raised
    /\ t_op' = "validate_nationality_data"
    /\ t_pc' = "done"
    /\ UNCHANGED <<t_table, t_metadata, t_mapping, t_required, t_again>>
    /\ UNCHANGED TableRest

ValidateExample ==
    /\ t_pc = "ready"
    /\ LET validated == validate_example_data(t_table)
       IN  /\ t_out' = validated.df
           /\ t_raised' = validated.raised
    /\ t_op' = "validate_example_data"
    /\ t_pc' = "done"
    /\ UNCHANGED <<t_table, t_metadata, t_mapping, t_required, t_again>>
    /\ UNCHANGED TableRest

TableNext ==
    \/ AddMetadata
    \/ MapAndValidate
    \/ RemoveEmpty
    \/ CleanNationality
    \/ ValidateNationality
    \/ ValidateExample

SpecTable == TableInit /\ [][TableNext]_vars

-----------------------------------------------------------------------------
(* Properties of the transformations *)

\* C13: add_metadata_columns never overwrites an existing column: a metadata
\* key that is already a column of the input keeps the input's values, and a
\* key that is not yet a column is added as a constant column.
C13_ExistingColumnsNotOverwritten ==
    t_op = "add_metadata_columns" =>
        \A key \in DictKeys(t_metadata) :
            /\ HasColumn(t_out, key)
            /\ IF HasColumn(t_table, key)
               THEN ColumnCells(t_out, key) = ColumnCells(t_table, key)
               ELSE \A k \in 1..Len(t_out.rows) :
                        ColumnCells(t_out, key)[k] = DictGet(t_metadata, key)

\* the name a column has after the mapping, stated from the mapping alone
MappedName(c) == IF c \in DictKeys(t_mapping) THEN DictGet(t_mapping, c) ELSE c

\* C14: apply_column_mapping followed by validate_required_columns raises iff
\* a required name is absent from the mapped column set; columns that are no
\* mapping key keep their names, and mapping keys absent from the table cause
\* no error.
C14_RaisesIffRequiredAbsent ==
    t_op = "apply_column_mapping" =>
        LET mapped == {MappedName(t_table.cols[k]) : k \in 1..Len(t_table.cols)}
        IN  /\ t_raised <=> (\E r \in t_required : r \notin mapped)
            /\ Len(t_out.cols) = Len(t_table.cols)
            /\ \A k \in 1..Len(t_table.cols) :
                   t_table.cols[k] \notin DictKeys(t_mapping) => t_out.cols[k] = t_table.cols[k]
            /\ t_out.rows = t_table.rows

\* a required column exists only thanks to the mapping, a mapping key is
\* absent from the table, and the validation passes
C14_Witness ==
    /\ t_op = "apply_column_mapping"
    /\ ~t_raised
    /\ \E r \in t_required : ~HasColumn(t_table, r)
    /\ \E key \in DictKeys(t_mapping) : ~HasColumn(t_table, key)

\* C15: remove_empty_rows_and_columns is idempotent, and its result has no
\* fully empty row and no fully empty column.
C15_RemoveEmptyIdempotent ==
    t_op = "remove_empty_rows_and_columns" =>
        /\ t_again = t_out
        /\ \A k \in 1..Len(t_out.rows) : \E c \in 1..Len(t_out.cols) : t_out.rows[k][c] # NaN
        /\ \A c \in 1..Len(t_out.cols) : \E k \in 1..Len(t_out.rows) : t_out.rows[k][c] # NaN

\* an empty row and an empty column were both dropped and something is left
C15_Witness ==
    /\ t_op = "remove_empty_rows_and_columns"
    /\ 0 < Len(t_out.rows) /\ Len(t_out.rows) < Len(t_table.rows)
    /\ 0 < Len(t_out.cols) /\ Len(t_out.cols) < Len(t_table.cols)

\* the rows whose cells at the given positions differ from those of every
\* earlier row, in order
RECURSIVE KeepFirsts(_, _, _)
KeepFirsts(rows, seen, positions) ==
    IF rows = <<>> THEN <<>>
    ELSE LET key == [c \in positions |-> Head(rows)[c]]
         IN  IF key \in seen THEN KeepFirsts(Tail(rows), seen, positions)
             ELSE <<Head(rows)>> \o KeepFirsts(Tail(rows), seen \cup {key}, positions)

DuplicateRemovals == {"validate_nationality_data", "validate_example_data"}

\* C16 (as stated): duplicate removal in the pipelines removes exactly the rows
\* that are exact duplicates of an earlier row, keeping first occurrences and
\* the order of the survivors.
C16_ExactDuplicatesRemoved ==
    (t_op \in DuplicateRemovals /\ ~t_raised) =>
        /\ t_out.cols = t_table.cols
        /\ t_out.rows = KeepFirsts(t_table.rows, {}, 1..Len(t_table.cols))

\* C16: validate_example_data removes exactly the exact duplicates of an
\* earlier row; validate_nationality_data removes exactly the rows whose
\* codigo_pais equals that of an earlier row, whatever their other cells; both
\* keep the first occurrence and the order of the survivors.
C16_DuplicatesRemovedByKey ==
    (t_op \in DuplicateRemovals /\ ~t_raised) =>
        /\ t_out.cols = t_table.cols
        /\ t_out.rows =
              KeepFirsts(t_table.rows, {},
                         IF t_op = "validate_example_data" THEN 1..Len(t_table.cols)
                         ELSE {ColumnIndex(t_table.cols, "codigo_pais")})

\* validate_nationality_data dropped a row of a table without exact duplicates
C16_Witness ==
    /\ t_op = "validate_nationality_data"
    /\ ~t_raised
    /\ Len(t_out.rows) < Len(t_table.rows)
    /\ KeepFirsts(t_table.rows, {}, 1..Len(t_table.cols)) = t_table.rows

CleanNationalityOps == {"clean_nationality_data", "clean_nationality_data (pandas 3)"}

\* C19: clean_nationality_data removes every row whose codigo_pais or pais is
\* missing in the input: the output has exactly the rows in which both are
\* present.
C19_RowsMissingCriticalRemoved ==
    (t_op \in CleanNationalityOps /\ ~t_raised) =>
        Len(t_out.rows) =
            Cardinality({k \in 1..Len(t_table.rows) :
                            /\ ColumnCells(t_table, "codigo_pais")[k] # NaN
                            /\ ColumnCells(t_table, "pais")[k] # NaN})

-----------------------------------------------------------------------------
(* Specification: process_spreadsheet_and_save_to_database, statement by
   statement.  A DataFrame is represented by its number of rows. *)

MaxSheetRows == 5   \* rows of the spreadsheet on disk

\* a plausible slip: the loaded data saved before it is transformed
NextStatement_SaveBeforeTransform(statement) ==
    CASE statement = "load" -> "save"
      [] statement = "save" -> "transform"
      [] statement = "transform" -> "prepare"
      [] statement = "prepare" -> "return"

\* the statement of the try block that follows the given one
NextStatement(statement) ==
    CASE statement = "load" -> "transform"
      [] statement = "transform" -> "prepare"
      [] statement = "prepare" -> "save"
      [] statement = "save" -> "return"

SheetInit ==
    /\ p_pc = "load"
    /\ p_rows \in 0..MaxSheetRows
    /\ p_frame = 0
    /\ p_trace = <<>>
    /\ p_written = <<>>
    /\ p_result = "none"
    /\ ZIdle /\ DIdle /\ OIdle /\ TIdle /\ SIdle /\ NIdle /\ MIdle

SheetRest == <<zvars, dvars, ovars, tvars, svars, nvars, mvars>>

\* the statement completed: on to the next one
Completes(statement) ==
    /\ p_trace' = Append(p_trace, statement)
    /\ p_pc' = NextStatement(statement)
    /\ p_result' = p_result

\* the statement raised: except Exception logs and returns False
Raises ==
    /\ p_pc' = "done"
    /\ p_result' = "false"
    /\ UNCHANGED <<p_frame, p_trace, p_written>>

\* dataframe = load_excel_file_to_dataframe(file_path)
Load ==
    /\ p_pc = "load"
    /\ \/ Completes("load") /\ p_frame' = p_rows /\ UNCHANGED p_written
       \/ Raises
    /\ UNCHANGED p_rows
    /\ UNCHANGED SheetRest

\* transformed_data = transform_nationalities_data(dataframe)
Transform ==
    /\ p_pc = "transform"
    /\ \/ Completes("transform") /\ p_frame' \in 0..p_frame /\ UNCHANGED p_written
       \/ Raises
    /\ UNCHANGED p_rows
    /\ UNCHANGED SheetRest

\* final_data = prepare_data_for_database(transformed_data)
Prepare ==
    /\ p_pc = "prepare"
    /\ \/ Completes("prepare") /\ p_frame' \in 0..p_frame /\ UNCHANGED p_written
       \/ Raises
    /\ UNCHANGED p_rows
    /\ UNCHANGED SheetRest

\* save_dataframe_to_sqlite(final_data, database_path, table_name, if_exists="replace"):
\* an empty DataFrame raises before the database is opened; a transaction that
\* fails is rolled back
SaveData ==
    /\ p_pc = "save"
    /\ \/ /\ p_frame > 0
          /\ Completes("save")
          /\ p_written' = Append(p_written, p_frame)
          /\ UNCHANGED p_frame
       \/ Raises
    /\ UNCHANGED p_rows
    /\ UNCHANGED SheetRest

\* return True
ReturnTrue ==
    /\ p_pc = "return"
    /\ p_pc' = "done"
    /\ p_result' = "true"
    /\ UNCHANGED <<p_rows, p_frame, p_trace, p_written>>
    /\ UNCHANGED SheetRest

SheetNext == Load \/ Transform \/ Prepare \/ SaveData \/ ReturnTrue

SpecSheet == SheetInit /\ [][SheetNext]_vars

\* C17: the store is written only after load and transform both succeeded, in
\* that order; if load or transform raises, nothing is written and the sequence
\* reports failure.
C17_WriteOnlyAfterLoadAndTransform ==
    /\ p_written # <<>> =>
          /\ Len(p_trace) >= 2
          /\ p_trace[1] = "load"
          /\ p_trace[2] = "transform"
    /\ (p_pc = "done" /\ (Len(p_trace) < 2 \/ p_trace[2] # "transform")) =>
          /\ p_written = <<>>
          /\ p_result = "false"
    /\ Len(p_written) <= 1

\* transform raised after a successful load: nothing written, failure reported
C17_Witness ==
    /\ p_pc = "done"
    /\ p_trace = <<"load">>
    /\ p_written = <<>>
    /\ p_result = "false"

-----------------------------------------------------------------------------
(* Specification: process_nationalities_data (nacionalidades.py) *)

\* the names pipeline.py imports from tmp.spreadsheet.transform
ImportedFromTransform ==
    {"load_excel_file_to_dataframe", "transform_nationalities_data",
     "prepare_data_for_database"}

\* the names tmp/spreadsheet/transform.py defines
DefinedByTransform ==
    {"load_excel_file_to_dataframe", "clean_dataframe_columns",
     "remove_empty_rows_and_columns", "standardize_text_columns",
     "apply_column_mapping", "validate_required_columns", "add_metadata_columns"}

\* importing tmp.spreadsheet.pipeline, and with it nacionalidades.py, fails
ImportFails == ~(ImportedFromTransform \subseteq DefinedByTransform)

\* the parameters of process_spreadsheet_and_save_to_database; file_path has no default
Parameters == {"file_path", "database_path", "table_name"}
RequiredParameters == {"file_path"}

\* the keyword arguments process_nationalities_data passes
KeywordArguments ==
    {"page_url", "download_dir", "transform_data", "column_mapping", "table_name", "db_path"}

\* the call raises TypeError before the body runs
CallRejected ==
    \/ ~(KeywordArguments \subseteq Parameters)
    \/ ~(RequiredParameters \subseteq KeywordArguments)

\* the page lists a spreadsheet that downloads, loads, transforms and persists
AllSucceeds(env) ==
    /\ env.status = "ok"
    /\ env.linked
    /\ env.download = "ok"
    /\ env.failing = "none"

\* process_nationalities_data: "error" when its module cannot be imported,
\* else the value it returns
process_nationalities_data(env) ==
    IF ImportFails THEN "error"
    ELSE IF CallRejected THEN "false"
    ELSE IF AllSucceeds(env) THEN "true" ELSE "false"

NationalitiesInit ==
    /\ n_pc = "call"
    /\ n_env \in [status : PageStatuses, linked : BOOLEAN,
                  download : DownloadOutcomes, failing : Stages]
    /\ n_result = "none"
    /\ ZIdle /\ DIdle /\ OIdle /\ TIdle /\ SIdle /\ PIdle /\ MIdle

CallNationalities ==
    /\ n_pc = "call"
    /\ n_result' = process_nationalities_data(n_env)
    /\ n_pc' = "done"
    /\ UNCHANGED n_env
    /\ UNCHANGED <<zvars, dvars, ovars, tvars, svars, pvars, mvars>>

NationalitiesNext == CallNationalities

SpecNationalities == NationalitiesInit /\ [][NationalitiesNext]_vars

\* C18: process_nationalities_data returns True whenever the source page lists
\* a downloadable spreadsheet that downloads, loads, transforms and persists
\* without error.
C18_ReturnsTrueWhenAllSucceeds ==
    (n_pc = "done" /\ AllSucceeds(n_env)) => n_result = "true"

-----------------------------------------------------------------------------
(* Specification: run_all_pipelines (main.py) *)

MaxPipelines == 4   \* entries of the pipelines list

\* what a registered pipeline_function does when called: it returns True,
\* returns False, or raises an Exception
PipelineBehaviours == {"true", "false", "raise"}

\* a plausible slip: any() for all()
all_Any(values) == \E k \in 1..Len(values) : values[k]

\* all(results.values())
all(values) == \A k \in 1..Len(values) : values[k]

\* results[pipeline_name] after the try statement: the value returned, False
\* when the call raised
Recorded(behaviour) == behaviour = "true"

MainInit ==
    /\ m_pc = "loop"
    /\ m_pipelines \in SeqsUpTo(PipelineBehaviours, MaxPipelines)
    /\ m_i = 1
    /\ m_results = <<>>
    /\ m_calls = <<>>
    /\ m_ret = "none"
    /\ ZIdle /\ DIdle /\ OIdle /\ TIdle /\ SIdle /\ PIdle /\ NIdle

MainRest == <<zvars, dvars, ovars, tvars, svars, pvars, nvars>>

\* one iteration of the for loop; the names of the list are distinct, so every
\* iteration adds an entry to results
RunPipeline ==
    /\ m_pc = "loop"
    /\ m_i <= Len(m_pipelines)
    /\ m_calls' = Append(m_calls, m_i)
    /\ m_results' = Append(m_results, Recorded(m_pipelines[m_i]))
    /\ m_i' = m_i + 1
    /\ UNCHANGED <<m_pc, m_pipelines, m_ret>>
    /\ UNCHANGED MainRest

\* the summary after the loop and the return
Summarize ==
    /\ m_pc = "loop"
    /\ m_i > Len(m_pipelines)
    /\ m_ret' = IF all(m_results) THEN "true" ELSE "false"
    /\ m_pc' = "done"
    /\ UNCHANGED <<m_pipelines, m_i, m_results, m_calls>>
    /\ UNCHANGED MainRest

MainNext == RunPipeline \/ Summarize

SpecMain == MainInit /\ [][MainNext]_vars

\* C20: run_all_pipelines runs every registered pipeline exactly once in list
\* order, records a pipeline that raises as failed without skipping the ones
\* after it, never raises itself, and returns True iff every pipeline returned
\* True.
C20_EveryPipelineRunOnce ==
    /\ m_calls = [k \in 1..(m_i - 1) |-> k]
    /\ m_ret \in {"none", "true", "false"}
    /\ m_pc = "done" =>
          /\ m_calls = [k \in 1..Len(m_pipelines) |-> k]
          /\ m_results = [k \in 1..Len(m_pipelines) |-> m_pipelines[k] = "true"]
          /\ m_ret # "none"
          /\ m_ret = "true" <=> (\A k \in 1..Len(m_pipelines) : m_pipelines[k] = "true")

\* a pipeline raised, the ones after it ran all the same, one of them
\* returning True, and False was returned
C20_Witness ==
    /\ m_pc = "done"
    /\ \E j, k \in 1..Len(m_pipelines) :
          j < k /\ m_pipelines[j] = "raise" /\ m_pipelines[k] = "true"
    /\ Len(m_calls) = Len(m_pipelines)
    /\ m_ret = "false"

=============================================================================
